---- MODULE Spec2Model ----
(***************************************************************************)
(* Model of the ingestion layer of RAGNestiorAssistant:                    *)
(*   Libs/Parsers/DocumentsParser.py  (file parser and directory walker)   *)
(*   Libs/Parsers/VKParser.py         (peer normalisation, history fetch)  *)
(*   Libs/Parsers/TelegramParser.py   (chat message stream)                *)
(*                                                                         *)
(* Python values are tagged records: [none |-> TRUE] is None,              *)
(* [str |-> s] a string, [int |-> i] an integer, [list |-> q] a list,      *)
(* [exc |-> name] an exception object.  A path string is the sequence of   *)
(* its components, each component a pair <<stem, suffix>>.                 *)
(***************************************************************************)
EXTENDS Integers, Sequences, FiniteSets, TLC

VARIABLES
    prog,        \* the top-level call being run: "walk", "vk", "fetch", "tg"
    pc,          \* position inside that call
    result,      \* what the call gave back: nothing yet, a value, or a raise
    \* parse_documents_in_dir
    recursive,   \* its `recursive` argument
    entries,     \* what dir_path.glob(...) yields, in iteration order
    idx,         \* 1-based position of the for loop over the entries
    out,         \* the accumulator `out` (walker, _normalize_peer_ids)
    \* get_messages_from_vk / _fetch_history
    peer_ids,    \* the `peer_ids` argument
    limit,       \* `limit_per_dialog` / `limit`
    resolved,    \* per processed peer id, what _resolve_screen_name returned
    peers,       \* normalized_peers
    pidx,        \* 1-based position of the for loop over normalized_peers
    items,       \* _fetch_history: `items`
    got,         \* _fetch_history: `got`
    offset,      \* _fetch_history: `offset`
    docs,        \* the accumulator `docs` (VK, Telegram)
    remote,      \* log of the social-API calls issued so far, with outcomes
    \* get_messages_from_chats
    chats,       \* the `chats` argument
    cidx,        \* 1-based position of the for loop over chats
    yielded      \* messages the current chat's iterator has yielded so far

vars == <<prog, pc, result, recursive, entries, idx, out, peer_ids, limit,
          resolved, peers, pidx, items, got, offset, docs, remote,
          chats, cidx, yielded>>

walkVars == <<recursive, entries, idx>>
vkVars == <<peer_ids, limit, resolved, peers, pidx, items, got, offset,
            remote>>
tgVars == <<chats, cidx, yielded>>

(***************************************************************************)
(* Bounds of the model.                                                    *)
(***************************************************************************)
MaxEntries == 3
MaxBlocks == 2

(***************************************************************************)
(* Python values.                                                          *)
(***************************************************************************)
PyNone == [none |-> TRUE]
PyStr(s) == [str |-> s]
PyInt(i) == [int |-> i]
PyList(q) == [list |-> q]
PyExc(name) == [exc |-> name]

IsNone(v) == "none" \in DOMAIN v
IsExc(v) == "exc" \in DOMAIN v
IsList(v) == "list" \in DOMAIN v

NoResult == [kind |-> "running"]
Returned(v) == [kind |-> "returned", value |-> v]
Raised(name) == [kind |-> "raised", exc |-> name]

\* bool(v) for the values the walker tests: a list is true when non-empty,
\* an exception object defines neither __bool__ nor __len__ and is true.
Truthy(v) == IF IsList(v) THEN Len(v.list) > 0 ELSE ~IsNone(v)

Document(content, metadata) == [page_content |-> content, metadata |-> metadata]

\* m with m[k] = v, the key added when absent (dict item assignment).
SetItem(m, k, v) == [x \in DOMAIN m \cup {k} |-> IF x = k THEN v ELSE m[x]]

RECURSIVE Flatten(_)
Flatten(qs) == IF qs = <<>> THEN <<>> ELSE Head(qs) \o Flatten(Tail(qs))

Max(a, b) == IF a >= b THEN a ELSE b
Min(a, b) == IF a <= b THEN a ELSE b

(***************************************************************************)
(* DocumentsParser.py                                                      *)
(***************************************************************************)
Root == <<"docs", "">>

\* Path.name and Path.suffix of a path; str(path) is the path itself.
PathName(p) == <<p[Len(p)]>>
PathSuffix(p) == p[Len(p)][2]

SupportedSuffixes == {".pdf", ".docx", ".md", ".pptx"}

\* get_document_loader: a loader for the four supported suffixes, otherwise
\* an Exception object that is returned, not raised.
get_document_loader(p) ==
    IF PathSuffix(p) \in SupportedSuffixes
    THEN [loader |-> PathSuffix(p), file_path |-> p, mode |-> "single"]
    ELSE PyExc("Exception")

\* loader.load() of the unstructured loaders in mode "single": every call
\* reads the file again and builds new Document objects whose metadata is
\* {"source": file_path}.  e.blocks is the number of documents the file
\* yields, e.raises whether reading it fails.
LoaderLoad(e) ==
    [i \in 1..e.blocks |->
        Document(PyStr(<<e.path, i>>), [k \in {"source"} |-> PyStr(e.path)])]

\* The loop of parse_document over the first load() result.
Annotate(d, p) ==
    Document(d.page_content,
             SetItem(SetItem(SetItem(d.metadata, "source", PyStr(PathName(p))),
                             "source_path", PyStr(p)),
                     "type", PyStr("Document")))

\* parse_document: the list it returns is the result of a second load(),
\* not the list whose documents were annotated.  Every exception is caught
\* and returned as a value: calling .load() on the Exception object that
\* get_document_loader returned is an AttributeError.
parse_document(e) ==
    LET loader == get_document_loader(e.path) IN
    IF IsExc(loader) THEN PyExc("AttributeError")
    ELSE IF e.raises THEN PyExc("LoaderError")
    ELSE LET first == [i \in 1..e.blocks |-> Annotate(LoaderLoad(e)[i], e.path)]
         IN  PyList(LoaderLoad(e))

\* The directory entries a glob may yield.
FilePaths ==
    { <<Root, <<"a", ".md">>>>, <<Root, <<"b", ".pdf">>>>,
      <<Root, <<"c", ".txt">>>>, <<Root, <<"sub", "">>>>,
      <<Root, <<"sub", "">>, <<"d", ".docx">>>> }

DirEntries ==
    { e \in [path : FilePaths, raises : BOOLEAN, blocks : 0..MaxBlocks] :
        /\ e.raises => e.blocks = 0
        /\ PathSuffix(e.path) \notin SupportedSuffixes => (~e.raises /\ e.blocks = 0) }

\* glob('**/*') yields entries at every depth, glob('*') the direct children.
GlobResults(rec) ==
    { q \in UNION { [1..n -> DirEntries] : n \in 0..MaxEntries } :
        /\ \A i, j \in DOMAIN q : i # j => q[i].path # q[j].path
        /\ ~rec => \A i \in DOMAIN q : Len(q[i].path) = 2 }

InitWalk ==
    /\ prog = "walk" /\ pc = "loop" /\ result = NoResult
    /\ recursive \in BOOLEAN
    /\ entries \in GlobResults(recursive)
    /\ idx = 1 /\ out = <<>>
    /\ peer_ids = <<>> /\ limit = 0 /\ resolved = <<>> /\ peers = <<>> /\ pidx = 1
    /\ items = <<>> /\ got = 0 /\ offset = 0 /\ docs = <<>>
    /\ remote = <<>>
    /\ chats = <<>> /\ cidx = 1 /\ yielded = 0

\* One iteration of the for loop of parse_documents_in_dir.  out.extend(docs)
\* with docs an exception object raises TypeError out of the function.
WalkEntry ==
    /\ prog = "walk" /\ pc = "loop" /\ idx <= Len(entries)
    /\ LET d == parse_document(entries[idx]) IN
         IF Truthy(d)
         THEN IF IsList(d)
              THEN /\ out' = out \o d.list
                   /\ idx' = idx + 1
                   /\ UNCHANGED <<pc, result>>
              ELSE /\ result' = Raised("TypeError")
                   /\ pc' = "done"
                   /\ UNCHANGED <<out, idx>>
         ELSE /\ idx' = idx + 1
              /\ UNCHANGED <<out, pc, result>>
    /\ UNCHANGED <<prog, recursive, entries, docs>>
    /\ UNCHANGED vkVars /\ UNCHANGED tgVars

\* The return statement of parse_documents_in_dir.
WalkReturn ==
    /\ prog = "walk" /\ pc = "loop" /\ idx > Len(entries)
    /\ result' = IF out # <<>> THEN Returned(PyList(out))
                 ELSE Returned(PyExc("Exception"))
    /\ pc' = "done"
    /\ UNCHANGED <<prog, recursive, entries, idx, out, docs>>
    /\ UNCHANGED vkVars /\ UNCHANGED tgVars

(***************************************************************************)
(* VKParser.py                                                             *)
(***************************************************************************)
PageCap == 200
MaxLimit == 450
MaxSmallLimit == 2
MaxPeers == 2
EdgeBatch == 1
MaxExtra == 1

\* dict.get(k) and dict.get(k, default)
Get(m, k) == IF k \in DOMAIN m THEN m[k] ELSE PyNone
GetOr(m, k, dflt) == IF k \in DOMAIN m THEN m[k] ELSE dflt

\* x or dflt, for x None, a string or a list
OrElse(x, dflt) ==
    IF IsNone(x) THEN dflt
    ELSE IF "str" \in DOMAIN x /\ x.str = "" THEN dflt
    ELSE IF IsList(x) /\ x.list = <<>> THEN dflt
    ELSE x

\* bool(x), for x None or a list
PyBool(x) == IF IsNone(x) THEN FALSE ELSE IF IsList(x) THEN x.list # <<>> ELSE TRUE

\* The message the history endpoint holds at position pos (1 = newest) of a
\* dialog.  The shapes cover an absent, null, empty and non-empty text, and
\* absent, empty and non-empty attachment and forward lists.
RemoteMessage(peer_id, pos) ==
    LET shape == (peer_id + pos) % 4
        id == PyInt(pos)
        date == PyInt(1700000000 - pos)
        from_id == PyInt(peer_id)
        base == [id |-> id, date |-> date, from_id |-> from_id]
    IN  CASE shape = 0 -> base
          [] shape = 1 ->
               [id |-> id, date |-> date, from_id |-> from_id,
                text |-> PyNone, attachments |-> PyList(<<>>)]
          [] shape = 2 ->
               [id |-> id, date |-> date, from_id |-> from_id,
                text |-> PyStr(""), fwd_messages |-> PyList(<<>>)]
          [] OTHER ->
               [id |-> id, date |-> date, from_id |-> from_id,
                text |-> PyStr("hello"),
                attachments |-> PyList(<<[type |-> PyStr("photo")], [url |-> PyStr("u")]>>),
                fwd_messages |-> PyList(<<base>>)]

\* _vk_message_to_document
_vk_message_to_document(msg, peer_id) ==
    LET text == OrElse(Get(msg, "text"), PyStr(""))
        attachments == OrElse(Get(msg, "attachments"), PyList(<<>>))
        att_summ == [i \in DOMAIN attachments.list |->
                        GetOr(attachments.list[i], "type", PyStr("unknown"))]
        metadata == [platform |-> PyStr("vk"),
                     peer_id |-> PyInt(peer_id),
                     message_id |-> Get(msg, "id"),
                     date |-> Get(msg, "date"),
                     from_id |-> Get(msg, "from_id"),
                     attachments |-> PyList(att_summ),
                     has_forward |-> [bool |-> PyBool(Get(msg, "fwd_messages"))]]
    IN  Document(text, metadata)

\* A screen-name argument is the sequence of its parts: <<"someuser">>, or
\* <<"https://vk.com/", "someuser">> for a profile URL.
UrlPrefix == "https://vk.com/"
StripUrl(name) == IF name[1] = UrlPrefix THEN <<name[Len(name)]>> ELSE name

\* What utils.resolveScreenName may do: raise, answer with an empty value, or
\* answer with a type and an object id.
ResolveOutcomes ==
    { [kind |-> "error"], [kind |-> "empty"] } \cup
    [kind : {"data"}, type : {"user", "group", "application"}, object_id : {0, 5}]

\* _resolve_screen_name, given the name and what the remote call did: every
\* exception of the call is caught and becomes None.
_resolve_screen_name(name, outcome) ==
    CASE outcome.kind = "error" -> PyNone
      [] outcome.kind = "empty" -> PyNone
      [] outcome.kind = "data" /\ outcome.type = "user" -> PyInt(outcome.object_id)
      [] outcome.kind = "data" /\ outcome.type = "group" -> PyInt(-outcome.object_id)
      [] OTHER -> PyNone

ResolveCall(name, outcome) ==
    [method |-> "resolveScreenName", screen_name |-> StripUrl(name), outcome |-> outcome]

HistoryCall(p, peer_id, count, off, ok, batch) ==
    [method |-> "getHistory", peer |-> p, peer_id |-> peer_id, count |-> count,
     offset |-> off, ok |-> ok, batch |-> batch]

PeerInputs ==
    { PyInt(123), PyStr(<<"someuser">>), PyStr(<<UrlPrefix, "someuser">>) }

PeerIdLists == UNION { [1..n -> PeerInputs] : n \in 0..MaxPeers }

InitVK ==
    /\ prog = "vk" /\ pc = "normalize" /\ result = NoResult
    /\ peer_ids \in PeerIdLists
    /\ limit \in -1..MaxSmallLimit
    /\ resolved = <<>> /\ out = <<>> /\ peers = <<>> /\ pidx = 1
    /\ items = <<>> /\ got = 0 /\ offset = 0 /\ docs = <<>> /\ remote = <<>>
    /\ recursive = FALSE /\ entries = <<>> /\ idx = 1
    /\ chats = <<>> /\ cidx = 1 /\ yielded = 0

\* _fetch_history called on its own for one peer.
InitFetch ==
    /\ prog = "fetch" /\ pc = "fetch" /\ result = NoResult
    /\ peer_ids = <<>> /\ resolved = <<>> /\ out = <<>>
    /\ peers = <<123>> /\ pidx = 1
    /\ limit \in -1..MaxLimit
    /\ items = <<>> /\ got = 0 /\ offset = 0 /\ docs = <<>> /\ remote = <<>>
    /\ recursive = FALSE /\ entries = <<>> /\ idx = 1
    /\ chats = <<>> /\ cidx = 1 /\ yielded = 0

\* Mutant: an id of 0 passes for a user id.
AcceptResolvedZero(r) == r >= 0

\* `if resolved > 0`: only a user id is a peer id.
AcceptResolved(r) == r > 0

\* One iteration of the for loop of _normalize_peer_ids.
NormalizePeer ==
    /\ prog = "vk" /\ pc = "normalize" /\ Len(resolved) < Len(peer_ids)
    /\ LET pid == peer_ids[Len(resolved) + 1] IN
         IF "int" \in DOMAIN pid
         THEN /\ out' = Append(out, pid.int)
              /\ resolved' = Append(resolved, pid)
              /\ UNCHANGED <<pc, result, remote>>
         ELSE \E outcome \in ResolveOutcomes :
                LET r == _resolve_screen_name(pid.str, outcome) IN
                /\ remote' = Append(remote, ResolveCall(pid.str, outcome))
                /\ resolved' = Append(resolved, r)
                /\ IF IsNone(r)
                   THEN /\ result' = Raised("ValueError") /\ pc' = "done"
                        /\ UNCHANGED out
                   ELSE IF AcceptResolved(r.int)
                   THEN /\ out' = Append(out, r.int)
                        /\ UNCHANGED <<pc, result>>
                   ELSE /\ result' = Raised("ValueError") /\ pc' = "done"
                        /\ UNCHANGED out
    /\ UNCHANGED <<prog, peer_ids, limit, peers, pidx, items, got, offset, docs>>
    /\ UNCHANGED walkVars /\ UNCHANGED tgVars

\* _normalize_peer_ids returns; get_messages_from_vk starts its peer loop.
NormalizeReturn ==
    /\ prog = "vk" /\ pc = "normalize" /\ Len(resolved) = Len(peer_ids)
    /\ peers' = out
    /\ docs' = <<>>
    /\ pc' = "peers"
    /\ UNCHANGED <<prog, result, out, peer_ids, limit, resolved, pidx, items, got,
                   offset, remote>>
    /\ UNCHANGED walkVars /\ UNCHANGED tgVars

\* get_messages_from_vk calls _fetch_history for the next peer.
FetchEnter ==
    /\ prog = "vk" /\ pc = "peers" /\ pidx <= Len(peers)
    /\ items' = <<>> /\ got' = 0 /\ offset' = 0
    /\ pc' = "fetch"
    /\ UNCHANGED <<prog, result, out, peer_ids, limit, resolved, peers, pidx, docs,
                   remote>>
    /\ UNCHANGED walkVars /\ UNCHANGED tgVars

\* Mutant: a call may ask for more than 200 messages.
PerCallNoCap(lim) == lim
\* per_call and count of _fetch_history
PerCall(lim) == IF lim > PageCap THEN PageCap ELSE lim
\* Mutant: the count is not clamped to what is still needed.
RequestCountNoClamp(lim, g) == PerCall(lim)
RequestCount(lim, g) == Min(PerCall(lim), lim - g)

\* The while condition, and the new values of the accumulator and counters.
LoopCond(g, lim) == g < lim
ExtendItems(its, batch) == its \o batch
\* Mutant: got is not advanced.
NextGotStuck(g, n) == g
NextGot(g, n) == g + n
NextOffset(off, n) == off + n
\* Mutant: a short batch does not end the loop.
ShortBatchNever(n, count) == FALSE
\* `if len(batch) < count: break`
ShortBatch(n, count) == n < count

\* The batch sizes a call is answered with: the sizes near 0 and near count,
\* among them those beyond count.
BatchSizes(count) ==
    { n \in 0..(count + MaxExtra) : n <= EdgeBatch \/ n >= count - EdgeBatch }

\* _fetch_history returns its_ ; in get_messages_from_vk the documents of the
\* messages are appended to docs and the peer loop moves on.
FetchDone(its) ==
    IF prog = "fetch"
    THEN /\ result' = Returned(PyList(its)) /\ pc' = "done"
         /\ UNCHANGED <<docs, pidx>>
    ELSE /\ docs' = docs \o [i \in DOMAIN its |-> _vk_message_to_document(its[i], peers[pidx])]
         /\ pidx' = pidx + 1
         /\ pc' = "peers"
         /\ UNCHANGED result

\* Mutant: an error of messages.getHistory is swallowed and ends the fetch
\* like an empty batch.
HistoryFailureSwallowed(count) ==
    /\ remote' = Append(remote, HistoryCall(pidx, peers[pidx], count, offset, FALSE, <<>>))
    /\ UNCHANGED <<items, got, offset>>
    /\ FetchDone(items)

\* messages.getHistory raises: nothing catches the error, which leaves
\* _fetch_history and get_messages_from_vk.
HistoryFailure(count) ==
    /\ remote' = Append(remote, HistoryCall(pidx, peers[pidx], count, offset, FALSE, <<>>))
    /\ result' = Raised("ApiError") /\ pc' = "done"
    /\ UNCHANGED <<items, got, offset, docs, pidx>>

\* One iteration of the while loop of _fetch_history.
FetchCall ==
    /\ prog \in {"vk", "fetch"} /\ pc = "fetch" /\ LoopCond(got, limit)
    /\ LET count == RequestCount(limit, got) IN
         \/ HistoryFailure(count)
         \/ \E n \in BatchSizes(count) :
              LET batch == [i \in 1..n |-> RemoteMessage(peers[pidx], offset + i)] IN
              /\ remote' = Append(remote, HistoryCall(pidx, peers[pidx], count, offset, TRUE, batch))
              /\ IF batch = <<>>
                 THEN /\ UNCHANGED <<items, got, offset>>
                      /\ FetchDone(items)
                 ELSE /\ items' = ExtendItems(items, batch)
                      /\ got' = NextGot(got, Len(batch))
                      /\ offset' = NextOffset(offset, Len(batch))
                      /\ IF ShortBatch(Len(batch), count)
                         THEN FetchDone(items')
                         ELSE UNCHANGED <<pc, result, docs, pidx>>
    /\ UNCHANGED <<prog, out, peer_ids, limit, resolved, peers>>
    /\ UNCHANGED walkVars /\ UNCHANGED tgVars

\* The while condition is false: _fetch_history returns items.
FetchReturn ==
    /\ prog \in {"vk", "fetch"} /\ pc = "fetch" /\ ~LoopCond(got, limit)
    /\ FetchDone(items)
    /\ UNCHANGED <<prog, out, peer_ids, limit, resolved, peers, items, got, offset,
                   remote>>
    /\ UNCHANGED walkVars /\ UNCHANGED tgVars

\* get_messages_from_vk returns docs.
VKReturn ==
    /\ prog = "vk" /\ pc = "peers" /\ pidx > Len(peers)
    /\ result' = Returned(PyList(docs))
    /\ pc' = "done"
    /\ UNCHANGED <<prog, out, docs>>
    /\ UNCHANGED vkVars /\ UNCHANGED walkVars /\ UNCHANGED tgVars

(***************************************************************************)
(* TelegramParser.py                                                       *)
(***************************************************************************)
MaxChats == 2

\* The messages client.iter_messages may yield: text absent (None), empty or
\* not; media absent or a photo.
TgMessages(n) ==
    { [id |-> PyInt(n), sender_id |-> PyInt(7), date |-> PyStr("2025-01-01"),
       text |-> t, media |-> m] :
        t \in {PyNone, PyStr(""), PyStr("hi")},
        m \in {PyNone, [class |-> "MessageMediaPhoto"]} }

\* The Document get_messages_from_chats builds from one message.
TgDocument(msg, chat) ==
    LET text == IF ~IsNone(msg.text) THEN msg.text ELSE PyStr("")
        metadata == [k \in {"source", "source_path", "message_id", "date", "type"} |->
                       CASE k = "source" -> msg.sender_id
                         [] k = "source_path" -> PyStr(chat)
                         [] k = "message_id" -> msg.id
                         [] k = "date" -> msg.date
                         [] OTHER -> IF ~IsNone(msg.media) THEN PyStr(msg.media.class)
                                     ELSE PyStr("text")]
    IN  Document(text, metadata)

ChatLists == UNION { [1..n -> {"@news", "https://t.me/+abc"}] : n \in 0..MaxChats }

InitTG ==
    /\ prog = "tg" /\ pc = "chats" /\ result = NoResult
    /\ chats \in ChatLists /\ cidx = 1 /\ yielded = 0
    /\ limit \in 0..MaxSmallLimit
    /\ docs = <<>>
    /\ peer_ids = <<>> /\ resolved = <<>> /\ out = <<>> /\ peers = <<>> /\ pidx = 1
    /\ items = <<>> /\ got = 0 /\ offset = 0 /\ remote = <<>>
    /\ recursive = FALSE /\ entries = <<>> /\ idx = 1

\* The iterator of the current chat yields a message (at most messages_limit
\* of them), or the remote call behind it fails.
TgMessage ==
    /\ prog = "tg" /\ pc = "chats" /\ cidx <= Len(chats) /\ yielded < limit
    /\ \/ \E msg \in TgMessages(yielded + 1) :
            /\ docs' = Append(docs, TgDocument(msg, chats[cidx]))
            /\ yielded' = yielded + 1
            /\ UNCHANGED <<pc, result>>
       \/ /\ result' = Raised("RPCError") /\ pc' = "done"
          /\ UNCHANGED <<docs, yielded>>
    /\ UNCHANGED <<prog, out, chats, cidx>>
    /\ UNCHANGED vkVars /\ UNCHANGED walkVars

\* The iterator of the current chat is exhausted: on to the next chat.
TgChatEnd ==
    /\ prog = "tg" /\ pc = "chats" /\ cidx <= Len(chats)
    /\ cidx' = cidx + 1 /\ yielded' = 0
    /\ UNCHANGED <<prog, pc, result, out, docs, chats>>
    /\ UNCHANGED vkVars /\ UNCHANGED walkVars

\* get_messages_from_chats returns docs.
TgReturn ==
    /\ prog = "tg" /\ pc = "chats" /\ cidx > Len(chats)
    /\ result' = Returned(PyList(docs)) /\ pc' = "done"
    /\ UNCHANGED <<prog, out, docs>>
    /\ UNCHANGED vkVars /\ UNCHANGED walkVars /\ UNCHANGED tgVars

(***************************************************************************)
(* Specifications.                                                         *)
(***************************************************************************)
NextWalk == WalkEntry \/ WalkReturn
SpecWalk == InitWalk /\ [][NextWalk]_vars

NextVK ==
    \/ NormalizePeer \/ NormalizeReturn \/ FetchEnter
    \/ FetchCall \/ FetchReturn \/ VKReturn
SpecVK == (InitVK \/ InitFetch) /\ [][NextVK]_vars

NextTG == TgMessage \/ TgChatEnd \/ TgReturn

Init == InitWalk \/ InitVK \/ InitTG
Next == NextWalk \/ NextVK \/ NextTG
Spec == Init /\ [][Next]_vars

(***************************************************************************)
(* parse_documents_in_dir and parse_document                               *)
(***************************************************************************)
\* The documents of the entries that parse_document parsed without failing.
ParsedDocs(q) ==
    Flatten([i \in DOMAIN q |->
        IF IsList(parse_document(q[i])) THEN parse_document(q[i]).list ELSE <<>>])

WalkDone == prog = "walk" /\ pc = "done"

\* C1: a failure on one entry never aborts the walk: the call returns (it
\* does not raise), and when some entry parsed it returns exactly the
\* documents of the entries that parsed, in order.
C1_FailureDoesNotAbortWalk ==
    WalkDone =>
        /\ result.kind = "returned"
        /\ ParsedDocs(entries) # <<>> => result.value = PyList(ParsedDocs(entries))

\* C2: the walk returns the error value, without raising, exactly when no
\* document was collected from the entries.
C2_EmptyResultIffNothingCollected ==
    WalkDone =>
        /\ ParsedDocs(entries) = <<>> => result = Returned(PyExc("Exception"))
        /\ ParsedDocs(entries) # <<>> =>
              (result.kind = "returned" /\ IsList(result.value) /\ result.value.list # <<>>)

\* C3: every Document parse_document returns for a loaded file has
\* metadata.source = the file's base name and metadata.source_path = its path.
C3_ReturnedDocsCarryFileMetadata ==
    prog = "walk" =>
        \A k \in 1..(idx - 1) :
            LET r == parse_document(entries[k]) IN
            IsList(r) =>
                \A i \in DOMAIN r.list :
                    /\ Get(r.list[i].metadata, "source") = PyStr(PathName(entries[k].path))
                    /\ Get(r.list[i].metadata, "source_path") = PyStr(entries[k].path)

\* The documents a call has emitted so far.
Emitted == IF prog = "walk" THEN out ELSE docs

\* C4: every emitted Document has non-null content and a metadata mapping
\* with at least the keys source and type.
C4_DocumentShape ==
    \A i \in DOMAIN Emitted :
        /\ ~IsNone(Emitted[i].page_content)
        /\ {"source", "type"} \subseteq DOMAIN Emitted[i].metadata

(***************************************************************************)
(* _fetch_history                                                          *)
(***************************************************************************)
FairSpecVK == SpecVK /\ WF_vars(NextVK)

IsHistory(c) == c.method = "getHistory"
IsResolve(c) == c.method = "resolveScreenName"

\* The getHistory calls issued for the p-th normalized peer, in order.
CallsOf(p) == SelectSeq(remote, LAMBDA c : IsHistory(c) /\ c.peer = p)
PeerIndexes == 1..Max(Len(peers), 1)

RECURSIVE SumSizes(_, _)
\* The number of items the first k calls of q returned.
SumSizes(q, k) == IF k = 0 THEN 0 ELSE SumSizes(q, k - 1) + Len(q[k].batch)

Batches(q) == [k \in DOMAIN q |-> q[k].batch]
Counts(q) == [k \in DOMAIN q |-> q[k].count]
Offsets(q) == [k \in DOMAIN q |-> q[k].offset]

CeilDiv(a, b) == (a + b - 1) \div b

\* Every call so far returned, with exactly / at most the count asked for.
AllFull(q) == \A k \in DOMAIN q : q[k].ok /\ Len(q[k].batch) = q[k].count
AllWithin(q) == \A k \in DOMAIN q : q[k].ok /\ Len(q[k].batch) <= q[k].count

FetchReturned == prog = "fetch" /\ pc = "done" /\ result.kind = "returned"

\* C5: with full batches, _fetch_history issues ceil(limit/200) calls (none
\* for limit <= 0); call k asks for min(200, limit - fetched) items at
\* offset fetched; limit 450 gives counts 200, 200, 50 at 0, 200, 400.
C5_FullBatchPagination ==
    (prog = "fetch" /\ AllFull(remote)) =>
        /\ \A k \in DOMAIN remote :
              /\ remote[k].count = Min(PageCap, limit - SumSizes(remote, k - 1))
              /\ remote[k].offset = SumSizes(remote, k - 1)
        /\ FetchReturned =>
              /\ Len(remote) = CeilDiv(Max(limit, 0), PageCap)
              /\ limit <= 0 => result.value = PyList(<<>>)
              /\ limit = 450 => /\ Counts(remote) = <<200, 200, 50>>
                                /\ Offsets(remote) = <<0, 200, 400>>

C5_Witness ==
    /\ FetchReturned /\ AllFull(remote) /\ limit = 450
    /\ Len(remote) = 3 /\ Len(result.value.list) = 450

\* C6: after a getHistory call that returned fewer items than asked for, no
\* further call is issued for that peer, and the list _fetch_history holds
\* and returns is the concatenation of the batches received, in order.
C6_ShortBatchEndsFetch ==
    /\ \A p \in PeerIndexes :
          LET q == CallsOf(p) IN
          \A k \in DOMAIN q :
              (q[k].ok /\ Len(q[k].batch) < q[k].count) => k = Len(q)
    /\ pc = "fetch" => items = Flatten(Batches(CallsOf(pidx)))
    /\ FetchReturned => result.value = PyList(Flatten(Batches(remote)))
    /\ (prog = "vk" /\ pc = "peers") =>
          Len(docs) = Len(Flatten(Batches(SelectSeq(remote, IsHistory))))

C6_Witness ==
    /\ FetchReturned /\ Len(remote) = 2
    /\ Len(remote[1].batch) = PageCap
    /\ Len(remote[2].batch) = 1 /\ remote[2].count > 1
    /\ Len(result.value.list) = PageCap + 1

(***************************************************************************)
(* _normalize_peer_ids and get_messages_from_vk                            *)
(***************************************************************************)
IsName(pid) == "str" \in DOMAIN pid

\* The outcome of the resolveScreenName call made for peer_ids[k], a name:
\* the calls of the normalisation are the first of the log, one per name.
NameOutcome(k) == remote[Cardinality({j \in 1..k : IsName(peer_ids[j])})].outcome

\* The signed id a resolution stands for: positive for a user, negative
\* for a community; 0 when the name did not resolve.
SignedId(o) ==
    IF o.kind = "data" /\ o.type = "user" THEN o.object_id
    ELSE IF o.kind = "data" /\ o.type = "group" THEN -o.object_id
    ELSE 0

\* peer_ids[k] is an integer, or a name that resolved to a user id.
ValidInput(k) == IsName(peer_ids[k]) => SignedId(NameOutcome(k)) > 0

Processed == 1..Len(resolved)

FailedCall(c) ==
    \/ IsHistory(c) /\ ~c.ok
    \/ IsResolve(c) /\ c.outcome.kind = "error"

\* C8 as stated: an error of any social-API call (getHistory or
\* resolveScreenName) propagates as that remote-call failure, the call is
\* not retried and no Document list is returned.
C8_RemoteErrorPropagates ==
    \A k \in DOMAIN remote :
        FailedCall(remote[k]) =>
            /\ k = Len(remote)
            /\ pc = "done" /\ result = Raised("ApiError")

\* C8 amended: an error of messages.getHistory propagates as that failure;
\* an error of utils.resolveScreenName is caught in _resolve_screen_name and
\* surfaces as the identifier error of _normalize_peer_ids.  Either way the
\* failing call is the last call made and no Document list is returned.
C8_RemoteErrorEndsCall ==
    \A k \in DOMAIN remote :
        FailedCall(remote[k]) =>
            /\ k = Len(remote)
            /\ pc = "done"
            /\ IsHistory(remote[k]) => result = Raised("ApiError")
            /\ IsResolve(remote[k]) => result = Raised("ValueError")

C8_Witness ==
    /\ prog = "vk" /\ Len(remote) = 3
    /\ IsResolve(remote[1]) /\ IsHistory(remote[2]) /\ remote[2].ok
    /\ FailedCall(remote[3]) /\ IsHistory(remote[3]) /\ remote[3].peer = 2
    /\ docs # <<>>

\* C9 as stated: _fetch_history never returns more than limit messages,
\* provided no call returns more than it was asked for.
C9_AtMostLimit ==
    (FetchReturned /\ AllWithin(remote)) => Len(result.value.list) <= limit

\* C9 amended: provided no call returns more than it was asked for,
\* _fetch_history never holds or returns more than max(limit, 0) messages,
\* get_messages_from_vk adds at most max(limit, 0) documents per peer, and
\* got, offset and the length of items are equal throughout.
C9_AtMostLimitOrZero ==
    /\ [](/\ got = offset /\ got = Len(items)
          /\ AllWithin(SelectSeq(remote, IsHistory)) =>
                /\ Len(items) <= Max(limit, 0)
                /\ FetchReturned => Len(result.value.list) <= Max(limit, 0)
                /\ prog = "vk" => Len(docs) <= (pidx - 1) * Max(limit, 0))
    /\ [][AllWithin(SelectSeq(remote', IsHistory)) =>
              Len(docs') - Len(docs) <= Max(limit, 0)]_vars

C9_Witness ==
    /\ FetchReturned /\ AllWithin(remote) /\ limit = PageCap + 1
    /\ Len(result.value.list) = limit

\* C10: _fetch_history terminates: an iteration that stays in the loop
\* raises got by at least one, at most max(limit, 0) calls are issued for
\* one peer, and the call ends.
C10_FetchTerminates ==
    /\ [][(pc = "fetch" /\ pc' = "fetch" /\ pidx' = pidx) => got' >= got + 1]_vars
    /\ [](\A p \in PeerIndexes : Len(CallsOf(p)) <= Max(limit, 0))
    /\ <>(pc = "done")

C10_Witness ==
    /\ FetchReturned /\ Len(remote) = 3
    /\ Len(remote[2].batch) = PageCap + MaxExtra
    /\ remote[3].batch = <<>>
====
